---- MODULE Spec2Model ----
(***************************************************************************)
(* Sticker Sketchpad (src/src/main.ts, final snapshot, lines 481-936):     *)
(* the drawing command model, its undo/redo history, the pointer gesture   *)
(* handlers, the tool settings and the redraw triggered by the             *)
(* "drawing-changed" event.                                                *)
(*                                                                         *)
(* Displayable objects have identity in the program (the same object is    *)
(* referenced from displayList or redoStack and from activeCommand).  The  *)
(* model gives every created command a fresh id; activeCommand holds the   *)
(* id, and drag() updates the record with that id wherever it lives.       *)
(***************************************************************************)
EXTENDS Integers, Sequences, FiniteSets, TLC

(* ---------- bound of the explored sessions ---------- *)
\* events of a session that add to its state: pointer-downs, pointer-moves
\* of a gesture in progress, and tool-setting events.  The remaining events
\* (gesture ends, hover moves, pointer-out, clear, undo, redo) are unbounded.
MaxOps == 4

(* ---------- program constants ---------- *)
THIN_WIDTH == 3
THICK_WIDTH == 9
DEFAULT_STICKER_SIZE == 36

\* the null reference / null index of the program
Null == 0 - 1

(* ---------- inputs ---------- *)
\* on-screen offset of the canvas (getBoundingClientRect)
CanvasRect == [left |-> 8, top |-> 8]
\* pointer events of one pointer (a mouse), in client coordinates
PointerEvs == {[clientX |-> 18, clientY |-> 18, pointerId |-> 1],
               [clientX |-> 28, clientY |-> 18, pointerId |-> 1]}
\* pointer events of two pointers (two fingers on a touch screen)
TouchEvs == {[clientX |-> 18, clientY |-> 18, pointerId |-> 1],
             [clientX |-> 28, clientY |-> 18, pointerId |-> 2]}
\* values the hue slider is moved to (range 0..360)
HueInputs == {0}
\* values the rotation slider is moved to (range 0..360)
RotInputs == {90}
\* answers to the custom sticker prompt: a text, or the prompt cancelled.
\* A text is a string of the program: a sequence of UTF-16 code units
\* (115 is "s", 32 a space, 9 a TAB, 160 a no-break space, 12288 an
\* ideographic space).
PromptInputs == {[cancelled |-> FALSE, text |-> <<115>>],
                 [cancelled |-> FALSE, text |-> <<32>>],
                 [cancelled |-> FALSE, text |-> <<9>>],
                 [cancelled |-> FALSE, text |-> <<160>>],
                 [cancelled |-> FALSE, text |-> <<32, 12288>>],
                 [cancelled |-> FALSE, text |-> <<>>],
                 [cancelled |-> TRUE, text |-> <<>>]}
\* sticker buttons that get clicked (0-based positions in STICKERS)
StickerClicks == {0}

(* ---------- pure helpers ---------- *)
posFromPointer(ev) ==
    [x |-> ev.clientX - CanvasRect.left, y |-> ev.clientY - CanvasRect.top]

hueToColor(h) == <<"hsl", h, 80, 45>>

NoPreview == [kind |-> "none"]

createMarkerLine(id, initial, width, color) ==
    [id |-> id, kind |-> "line", pts |-> <<initial>>, width |-> width, color |-> color]

createPlaceSticker(id, initial, emoji, size, rotationDeg) ==
    [id |-> id, kind |-> "sticker", at |-> initial, emoji |-> emoji,
     size |-> size, rotationDeg |-> rotationDeg]

createToolPreviewPen(center, width, color) ==
    [kind |-> "penPreview", center |-> center, width |-> width, color |-> color]

createStickerPreview(center, emoji, size, rotationDeg) ==
    [kind |-> "stickerPreview", center |-> center, emoji |-> emoji,
     size |-> size, rotationDeg |-> rotationDeg]

\* drag that skips a point equal to the last one recorded
drag_dedup(cmd, p) ==
    IF cmd.kind = "line"
    THEN IF cmd.pts[Len(cmd.pts)] = p THEN cmd ELSE [cmd EXCEPT !.pts = Append(@, p)]
    ELSE [cmd EXCEPT !.at = p]

\* drag that moves lines only: a sticker keeps its first anchor
drag_linesOnly(cmd, p) ==
    IF cmd.kind = "line" THEN [cmd EXCEPT !.pts = Append(@, p)]
    ELSE cmd

\* the drag method of a command object
drag(cmd, p) ==
    IF cmd.kind = "line" THEN [cmd EXCEPT !.pts = Append(@, p)]
    ELSE [cmd EXCEPT !.at = p]

\* drag applied to the newest command of the list, whichever object that is
dragRef_last(list, id, p) ==
    [i \in DOMAIN list |-> IF i = Len(list) THEN drag(list[i], p) ELSE list[i]]

\* drag applied through a reference: the object with this id, wherever it is
dragRef(list, id, p) ==
    [i \in DOMAIN list |-> IF list[i].id = id THEN drag(list[i], p) ELSE list[i]]

\* the code units String.prototype.trim strips: the WhiteSpace and
\* LineTerminator code points of the language (TAB, LF, VT, FF, CR, space,
\* no-break space, U+1680, U+2000..U+200A, U+2028, U+2029, U+202F, U+205F,
\* U+3000, U+FEFF)
WhiteSpace == {9, 10, 11, 12, 13, 32, 160, 5760} \cup (8192..8202)
                  \cup {8232, 8233, 8239, 8287, 12288, 65279}

\* String.prototype.trim on a sequence of code units
RECURSIVE trimStart(_)
trimStart(t) == IF t # <<>> /\ Head(t) \in WhiteSpace THEN trimStart(Tail(t)) ELSE t
RECURSIVE trimEnd(_)
trimEnd(t) ==
    IF t # <<>> /\ t[Len(t)] \in WhiteSpace THEN trimEnd(SubSeq(t, 1, Len(t) - 1)) ELSE t
trim(t) == trimEnd(trimStart(t))

STICKERS_INIT ==
    << [glyph |-> <<55356, 57166>>, size |-> DEFAULT_STICKER_SIZE],
       [glyph |-> <<55356, 57164>>, size |-> DEFAULT_STICKER_SIZE],
       [glyph |-> <<55358, 56669>>, size |-> DEFAULT_STICKER_SIZE] >>

VARIABLES
    displayList,        \* committed commands, oldest first
    redoStack,          \* undone commands, most recently undone last
    isDrawing,
    toolMode,           \* "pen" | "sticker"
    STICKERS,
    selectedStickerIdx, \* 0-based index or Null
    activeCommand,      \* id of the command in progress or Null
    captured,           \* pointer ids the canvas holds pointer capture for:
                        \* setPointerCapture called, releasePointerCapture not yet
    currentPreview,
    selectedLineWidth,
    markerHue,
    stickerRotationDeg,
    nextId,             \* number of command objects created so far
    notified,           \* the last handler dispatched "drawing-changed"
    screen,             \* what the last redraw() painted
    ops,                \* environment: number of counted events so far
    pressed,            \* environment: pointer ids that are down (two-pointer sessions)
    exported,           \* environment: what the last export rendered into its
                        \* image (empty before the first export)
    phase,              \* environment: "free" | "rec" | "done" (scripted gestures)
    script              \* environment: the tool state and display list at the
                        \* pointer-down of the scripted gesture, and the pointer
                        \* events delivered to it

vars == <<displayList, redoStack, isDrawing, toolMode, STICKERS, selectedStickerIdx,
          activeCommand, captured, currentPreview, selectedLineWidth, markerHue,
          stickerRotationDeg, nextId, notified, screen, ops, pressed, exported,
          phase, script>>

\* the program's variables, and the environment's bookkeeping
prog == <<displayList, redoStack, isDrawing, toolMode, STICKERS, selectedStickerIdx,
          activeCommand, captured, currentPreview, selectedLineWidth, markerHue,
          stickerRotationDeg, nextId, notified, screen>>
env == <<ops, pressed, exported, phase, script>>
\* the environment's bookkeeping other than the event count
rest == <<pressed, exported, phase, script>>

history == <<displayList, redoStack>>
gesture == <<isDrawing, activeCommand, captured>>
toolState == <<toolMode, STICKERS, selectedStickerIdx, selectedLineWidth, markerHue,
               stickerRotationDeg>>

\* no scripted gesture recorded
NoScript == [tool |-> <<>>, base |-> <<>>, evs |-> <<>>]

\* redraw that paints the preview first, under the commands
redraw_previewFirst(list, preview) ==
    IF preview = NoPreview THEN list ELSE <<preview>> \o list

\* redraw(): every command of the display list in order, then the preview
redraw(list, preview) ==
    IF preview = NoPreview THEN list ELSE Append(list, preview)

Init ==
    /\ displayList = <<>>
    /\ redoStack = <<>>
    /\ isDrawing = FALSE
    /\ toolMode = "pen"
    /\ STICKERS = STICKERS_INIT
    /\ selectedStickerIdx = Null
    /\ activeCommand = Null
    /\ captured = {}
    /\ currentPreview = NoPreview
    /\ selectedLineWidth = THIN_WIDTH
    /\ markerHue = 210
    /\ stickerRotationDeg = 0
    /\ nextId = 0
    /\ notified = FALSE
    /\ screen = <<>>
    /\ ops = 0
    /\ pressed = {}
    /\ exported = <<>>
    /\ phase = "free"
    /\ script = NoScript


\* the command an id refers to, looked up in both lists (<<>> when in neither)
deref(id) ==
    LET all == displayList \o redoStack
        hit == {i \in DOMAIN all : all[i].id = id}
    IN  IF hit = {} THEN <<>> ELSE <<all[CHOOSE i \in hit : TRUE]>>


(* ---------- Export ---------- *)
\* export that replays what is on screen (redraw's sequence, preview included)
exportHighResPNG_viaRedraw ==
    /\ exported' = redraw(displayList, currentPreview)
    /\ notified' = FALSE
    /\ UNCHANGED <<history, gesture, currentPreview, toolState, nextId, screen>>

\* "Export" button: every command of the display list, in order, painted on
\* a fresh canvas that becomes the downloaded image
exportHighResPNG ==
    /\ exported' = displayList
    /\ notified' = FALSE
    /\ UNCHANGED <<history, gesture, currentPreview, toolState, nextId, screen>>

(* ---------- Stroke lifecycle ---------- *)
\* beginStroke without "redoStack.length = 0"
beginStroke_keepsRedo(ev) ==
    LET p == posFromPointer(ev)
        id == nextId + 1
    IN  /\ captured' = captured \cup {ev.pointerId}
        /\ isDrawing' = TRUE
        /\ currentPreview' = NoPreview
        /\ UNCHANGED redoStack
        /\ activeCommand' = id
        /\ displayList' = Append(displayList,
               IF toolMode = "pen"
               THEN createMarkerLine(id, p, selectedLineWidth, hueToColor(markerHue))
               ELSE LET s == STICKERS[selectedStickerIdx + 1]
                    IN  createPlaceSticker(id, p, s.glyph, s.size, stickerRotationDeg))
        /\ nextId' = id
        /\ notified' = TRUE
        /\ screen' = redraw(displayList', currentPreview')
        /\ UNCHANGED toolState

\* beginStroke without "currentPreview = null"
beginStroke_keepsPreview(ev) ==
    LET p == posFromPointer(ev)
        id == nextId + 1
    IN  /\ captured' = captured \cup {ev.pointerId}
        /\ isDrawing' = TRUE
        /\ UNCHANGED currentPreview
        /\ redoStack' = <<>>
        /\ activeCommand' = id
        /\ displayList' = Append(displayList,
               IF toolMode = "pen"
               THEN createMarkerLine(id, p, selectedLineWidth, hueToColor(markerHue))
               ELSE LET s == STICKERS[selectedStickerIdx + 1]
                    IN  createPlaceSticker(id, p, s.glyph, s.size, stickerRotationDeg))
        /\ nextId' = id
        /\ notified' = TRUE
        /\ screen' = redraw(displayList', currentPreview')
        /\ UNCHANGED toolState

\* pointerdown
beginStroke(ev) ==
    LET p == posFromPointer(ev)
        id == nextId + 1
    IN  /\ captured' = captured \cup {ev.pointerId}
        /\ isDrawing' = TRUE
        /\ currentPreview' = NoPreview
        /\ redoStack' = <<>>
        /\ IF toolMode = "pen"
           THEN /\ activeCommand' = id
                /\ displayList' = Append(displayList,
                       createMarkerLine(id, p, selectedLineWidth, hueToColor(markerHue)))
                /\ nextId' = id
                /\ notified' = TRUE
                /\ screen' = redraw(displayList', currentPreview')
           ELSE IF selectedStickerIdx = Null
           THEN /\ notified' = FALSE
                /\ UNCHANGED <<activeCommand, displayList, nextId, screen>>
           ELSE LET s == STICKERS[selectedStickerIdx + 1]
                IN  /\ activeCommand' = id
                    /\ displayList' = Append(displayList,
                           createPlaceSticker(id, p, s.glyph, s.size, stickerRotationDeg))
                    /\ nextId' = id
                    /\ notified' = TRUE
                    /\ screen' = redraw(displayList', currentPreview')
        /\ UNCHANGED toolState

\* pointermove listener registered at the event wiring
drawStroke(ev) ==
    IF ~isDrawing \/ activeCommand = Null
    THEN /\ notified' = FALSE
         /\ UNCHANGED <<history, gesture, currentPreview, toolState, nextId, screen>>
    ELSE LET p == posFromPointer(ev)
         IN  /\ displayList' = dragRef(displayList, activeCommand, p)
             /\ redoStack' = dragRef(redoStack, activeCommand, p)
             /\ notified' = TRUE
             /\ screen' = redraw(displayList', currentPreview)
             /\ UNCHANGED <<gesture, currentPreview, toolState, nextId>>

\* endStroke without the "if (!isDrawing) return" guard
endStroke_always(ev) ==
    LET p == posFromPointer(ev)
    IN  /\ isDrawing' = FALSE
        /\ captured' = captured \ {ev.pointerId}
        /\ currentPreview' =
               IF toolMode = "pen"
               THEN createToolPreviewPen(p, selectedLineWidth, hueToColor(markerHue))
               ELSE IF selectedStickerIdx # Null
               THEN LET s == STICKERS[selectedStickerIdx + 1]
                    IN  createStickerPreview(p, s.glyph, s.size, stickerRotationDeg)
               ELSE currentPreview
        /\ activeCommand' = Null
        /\ notified' = TRUE
        /\ screen' = redraw(displayList, currentPreview')
        /\ UNCHANGED <<history, toolState, nextId>>

\* pointerup, pointerleave, pointercancel
endStroke(ev) ==
    IF ~isDrawing
    THEN /\ notified' = FALSE
         /\ UNCHANGED <<history, gesture, currentPreview, toolState, nextId, screen>>
    ELSE LET p == posFromPointer(ev)
         IN  /\ isDrawing' = FALSE
             /\ captured' = captured \ {ev.pointerId}
             /\ currentPreview' =
                    IF toolMode = "pen"
                    THEN createToolPreviewPen(p, selectedLineWidth, hueToColor(markerHue))
                    ELSE IF selectedStickerIdx # Null
                    THEN LET s == STICKERS[selectedStickerIdx + 1]
                         IN  createStickerPreview(p, s.glyph, s.size, stickerRotationDeg)
                    ELSE currentPreview
             /\ activeCommand' = Null
             /\ notified' = TRUE
             /\ screen' = redraw(displayList, currentPreview')
             /\ UNCHANGED <<history, toolState, nextId>>

\* hover listener that always builds the pen preview
hoverMove_penOnly(ev) ==
    IF isDrawing
    THEN /\ notified' = FALSE
         /\ UNCHANGED <<history, gesture, currentPreview, toolState, nextId, screen>>
    ELSE /\ currentPreview' = createToolPreviewPen(posFromPointer(ev), selectedLineWidth,
                                                    hueToColor(markerHue))
         /\ notified' = TRUE
         /\ screen' = redraw(displayList, currentPreview')
         /\ UNCHANGED <<history, gesture, toolState, nextId>>

\* the anonymous pointermove listener (preview on hover)
hoverMove(ev) ==
    IF isDrawing
    THEN /\ notified' = FALSE
         /\ UNCHANGED <<history, gesture, currentPreview, toolState, nextId, screen>>
    ELSE LET p == posFromPointer(ev)
         IN  /\ currentPreview' =
                    IF toolMode = "pen"
                    THEN createToolPreviewPen(p, selectedLineWidth, hueToColor(markerHue))
                    ELSE IF selectedStickerIdx # Null
                    THEN LET s == STICKERS[selectedStickerIdx + 1]
                         IN  createStickerPreview(p, s.glyph, s.size, stickerRotationDeg)
                    ELSE NoPreview
             /\ notified' = TRUE
             /\ screen' = redraw(displayList, currentPreview')
             /\ UNCHANGED <<history, gesture, toolState, nextId>>

\* a pointermove event runs both listeners, the hover listener first; it
\* returns at once while drawing, drawStroke returns at once while not
\* drawing, and neither changes isDrawing
pointerMove(ev) ==
    IF isDrawing THEN drawStroke(ev) ELSE hoverMove(ev)

\* pointerout that drops the preview without dispatching "drawing-changed"
pointerOut_silent ==
    /\ currentPreview' = NoPreview
    /\ notified' = FALSE
    /\ UNCHANGED <<history, gesture, toolState, nextId, screen>>

\* pointerout
pointerOut ==
    /\ currentPreview' = NoPreview
    /\ notified' = TRUE
    /\ screen' = redraw(displayList, currentPreview')
    /\ UNCHANGED <<history, gesture, toolState, nextId>>

(* ---------- Tool switching ---------- *)
\* setActiveTool without "selectedStickerIdx = null"
setActiveTool_keepsSelection(width) ==
    /\ toolMode' = "pen"
    /\ selectedLineWidth' = width
    /\ notified' = FALSE
    /\ UNCHANGED <<history, gesture, currentPreview, STICKERS, selectedStickerIdx,
                   markerHue, stickerRotationDeg, nextId, screen>>

\* Thin / Thick buttons
setActiveTool(width) ==
    /\ toolMode' = "pen"
    /\ selectedLineWidth' = width
    /\ selectedStickerIdx' = Null
    /\ notified' = FALSE
    /\ UNCHANGED <<history, gesture, currentPreview, STICKERS, markerHue,
                   stickerRotationDeg, nextId, screen>>

\* leaves STICKERS to its caller
selectStickerByIndex(i) ==
    /\ toolMode' = "sticker"
    /\ selectedStickerIdx' = i
    /\ currentPreview' = NoPreview
    /\ notified' = TRUE
    /\ screen' = redraw(displayList, currentPreview')
    /\ UNCHANGED <<history, gesture, selectedLineWidth, markerHue, stickerRotationDeg, nextId>>

\* click on the i-th sticker button (one button per entry of STICKERS)
stickerBtnClick(i) ==
    /\ i < Len(STICKERS)
    /\ selectStickerByIndex(i)
    /\ UNCHANGED STICKERS

\* "Custom +" button; answer is what prompt() returned
customBtnClick(answer) ==
    IF answer.cancelled \/ trim(answer.text) = <<>>
    THEN /\ notified' = FALSE
         /\ UNCHANGED <<history, gesture, currentPreview, toolState, nextId, screen>>
    ELSE /\ STICKERS' = Append(STICKERS, [glyph |-> answer.text, size |-> DEFAULT_STICKER_SIZE])
         /\ selectStickerByIndex(Len(STICKERS') - 1)

\* hue slider
hueInput(value) ==
    /\ markerHue' = value
    /\ IF ~isDrawing /\ toolMode = "pen"
       THEN /\ notified' = TRUE
            /\ screen' = redraw(displayList, currentPreview)
       ELSE /\ notified' = FALSE
            /\ UNCHANGED screen
    /\ UNCHANGED <<history, gesture, currentPreview, toolMode, STICKERS, selectedStickerIdx,
                   selectedLineWidth, stickerRotationDeg, nextId>>

\* rotation slider
rotInput(value) ==
    /\ stickerRotationDeg' = value
    /\ IF ~isDrawing /\ toolMode = "sticker" /\ selectedStickerIdx # Null
       THEN /\ notified' = TRUE
            /\ screen' = redraw(displayList, currentPreview)
       ELSE /\ notified' = FALSE
            /\ UNCHANGED screen
    /\ UNCHANGED <<history, gesture, currentPreview, toolMode, STICKERS, selectedStickerIdx,
                   selectedLineWidth, markerHue, nextId>>

(* ---------- Clear / Undo / Redo ---------- *)
\* a clear that can be redone: the display list is moved onto the redo stack
clearLists_redoable(dl, rs) ==
    << <<>>, rs \o [i \in 1..Len(dl) |-> dl[Len(dl) + 1 - i]] >>

\* what the clear handler leaves in <<displayList, redoStack>>
clearLists(dl, rs) == << <<>>, <<>> >>

\* undo that removes the oldest command instead of the newest
undoLists_shift(dl, rs) ==
    IF Len(dl) = 0 THEN <<dl, rs>>
    ELSE <<Tail(dl), Append(rs, Head(dl))>>

\* undo that puts the popped command under the redo stack instead of on top
undoLists_unshift(dl, rs) ==
    IF Len(dl) = 0 THEN <<dl, rs>>
    ELSE <<SubSeq(dl, 1, Len(dl) - 1), <<dl[Len(dl)]>> \o rs>>

\* what the undo handler leaves in <<displayList, redoStack>>
undoLists(dl, rs) ==
    IF Len(dl) = 0 THEN <<dl, rs>>
    ELSE LET popped == dl[Len(dl)]
         IN  <<SubSeq(dl, 1, Len(dl) - 1), Append(rs, popped)>>

\* redo that restores the oldest undone command instead of the latest
redoLists_shift(dl, rs) ==
    IF Len(rs) = 0 THEN <<dl, rs>>
    ELSE <<Append(dl, Head(rs)), Tail(rs)>>

\* redo that puts the command back at the front of the display list
redoLists_unshift(dl, rs) ==
    IF Len(rs) = 0 THEN <<dl, rs>>
    ELSE <<<<rs[Len(rs)]>> \o dl, SubSeq(rs, 1, Len(rs) - 1)>>

\* redo that reads the top of the redo stack without popping it
redoLists_peek(dl, rs) ==
    IF Len(rs) = 0 THEN <<dl, rs>>
    ELSE <<Append(dl, rs[Len(rs)]), rs>>

\* what the redo handler leaves in <<displayList, redoStack>>
redoLists(dl, rs) ==
    IF Len(rs) = 0 THEN <<dl, rs>>
    ELSE LET popped == rs[Len(rs)]
         IN  <<Append(dl, popped), SubSeq(rs, 1, Len(rs) - 1)>>

\* clear that also abandons the gesture in progress
clearBtnClick_endsGesture ==
    /\ displayList' = <<>>
    /\ redoStack' = <<>>
    /\ isDrawing' = FALSE
    /\ activeCommand' = Null
    /\ notified' = TRUE
    /\ screen' = redraw(displayList', currentPreview)
    /\ UNCHANGED <<captured, currentPreview, toolState, nextId>>

clearBtnClick ==
    /\ displayList' = clearLists(displayList, redoStack)[1]
    /\ redoStack' = clearLists(displayList, redoStack)[2]
    /\ notified' = TRUE
    /\ screen' = redraw(displayList', currentPreview)
    /\ UNCHANGED <<gesture, currentPreview, toolState, nextId>>

undoBtnClick ==
    IF Len(displayList) = 0
    THEN /\ notified' = FALSE
         /\ UNCHANGED <<history, gesture, currentPreview, toolState, nextId, screen>>
    ELSE /\ displayList' = undoLists(displayList, redoStack)[1]
         /\ redoStack' = undoLists(displayList, redoStack)[2]
         /\ notified' = TRUE
         /\ screen' = redraw(displayList', currentPreview)
         /\ UNCHANGED <<gesture, currentPreview, toolState, nextId>>

redoBtnClick ==
    IF Len(redoStack) = 0
    THEN /\ notified' = FALSE
         /\ UNCHANGED <<history, gesture, currentPreview, toolState, nextId, screen>>
    ELSE /\ displayList' = redoLists(displayList, redoStack)[1]
         /\ redoStack' = redoLists(displayList, redoStack)[2]
         /\ notified' = TRUE
         /\ screen' = redraw(displayList', currentPreview)
         /\ UNCHANGED <<gesture, currentPreview, toolState, nextId>>

(* ---------- Event wiring: sessions of arbitrary interleaved events ---------- *)
\* the toolbar's tool-setting events
toolEvent ==
    \/ setActiveTool(THIN_WIDTH)
    \/ setActiveTool(THICK_WIDTH)
    \/ \E i \in StickerClicks : stickerBtnClick(i)
    \/ \E answer \in PromptInputs : customBtnClick(answer)
    \/ \E v \in HueInputs : hueInput(v)
    \/ \E v \in RotInputs : rotInput(v)

\* an event that counts against the session's budget
CountOp == ops < MaxOps /\ ops' = ops + 1

PointerDown == CountOp /\ (\E ev \in PointerEvs : beginStroke(ev)) /\ UNCHANGED rest
PointerMove ==
    /\ IF isDrawing THEN CountOp ELSE UNCHANGED ops
    /\ \E ev \in PointerEvs : pointerMove(ev)
    /\ UNCHANGED rest
PointerUp == (\E ev \in PointerEvs : endStroke(ev)) /\ UNCHANGED env
PointerLeave == (\E ev \in PointerEvs : endStroke(ev)) /\ UNCHANGED env
PointerCancel == (\E ev \in PointerEvs : endStroke(ev)) /\ UNCHANGED env
PointerOut == pointerOut /\ UNCHANGED env
ThinClick == CountOp /\ setActiveTool(THIN_WIDTH) /\ UNCHANGED rest
ThickClick == CountOp /\ setActiveTool(THICK_WIDTH) /\ UNCHANGED rest
StickerClick ==
    CountOp /\ (\E i \in StickerClicks : stickerBtnClick(i)) /\ UNCHANGED rest
CustomClick ==
    /\ CountOp
    /\ \E answer \in PromptInputs : customBtnClick(answer)
    /\ UNCHANGED rest
HueInput == CountOp /\ (\E v \in HueInputs : hueInput(v)) /\ UNCHANGED rest
RotInput == CountOp /\ (\E v \in RotInputs : rotInput(v)) /\ UNCHANGED rest
ClearClick == clearBtnClick /\ UNCHANGED env
UndoClick == undoBtnClick /\ UNCHANGED env
RedoClick == redoBtnClick /\ UNCHANGED env

Next ==
    \/ PointerDown
    \/ PointerMove
    \/ PointerUp
    \/ PointerLeave
    \/ PointerCancel
    \/ PointerOut
    \/ ThinClick
    \/ ThickClick
    \/ StickerClick
    \/ CustomClick
    \/ HueInput
    \/ RotInput
    \/ ClearClick
    \/ UndoClick
    \/ RedoClick

Spec == Init /\ [][Next]_vars

\* the sessions of Spec with the "Export" button
ExportClick == CountOp /\ exportHighResPNG /\ UNCHANGED <<pressed, phase, script>>

NextExport ==
    \/ Next
    \/ ExportClick

SpecExport == Init /\ [][NextExport]_vars



(* ---------- Sessions of well-formed gestures ---------- *)
\* the tool settings, by name
toolRecord ==
    [mode |-> toolMode, stickers |-> STICKERS, idx |-> selectedStickerIdx,
     width |-> selectedLineWidth, hue |-> markerHue, rot |-> stickerRotationDeg]

(* Every gesture is pointer-down, pointer-moves, one ending event, with no *)
(* other event in between; the environment records what it delivered.      *)
GestureDown ==
    /\ phase # "rec"
    /\ CountOp
    /\ \E ev \in PointerEvs :
          /\ beginStroke(ev)
          /\ script' = [tool |-> toolRecord, base |-> displayList, evs |-> <<ev>>]
    /\ phase' = "rec"
    /\ UNCHANGED <<pressed, exported>>

GestureMove ==
    /\ phase = "rec"
    /\ CountOp
    /\ \E ev \in PointerEvs :
          /\ pointerMove(ev)
          /\ script' = [script EXCEPT !.evs = Append(@, ev)]
    /\ UNCHANGED <<phase, pressed, exported>>

GestureEnd ==
    /\ phase = "rec"
    /\ \E ev \in PointerEvs :
          /\ endStroke(ev)
          /\ script' = [script EXCEPT !.evs = Append(@, ev)]
    /\ phase' = "done"
    /\ UNCHANGED <<ops, pressed, exported>>

BetweenTool ==
    /\ phase # "rec"
    /\ CountOp /\ toolEvent
    /\ phase' = "free" /\ script' = NoScript
    /\ UNCHANGED <<pressed, exported>>

BetweenHistory ==
    /\ phase # "rec"
    /\ (clearBtnClick \/ undoBtnClick \/ redoBtnClick)
    /\ phase' = "free" /\ script' = NoScript
    /\ UNCHANGED <<ops, pressed, exported>>

BetweenHover ==
    /\ phase # "rec"
    /\ ((\E ev \in PointerEvs : pointerMove(ev)) \/ pointerOut)
    /\ phase' = "free" /\ script' = NoScript
    /\ UNCHANGED <<ops, pressed, exported>>

NextGesture ==
    \/ GestureDown
    \/ GestureMove
    \/ GestureEnd
    \/ BetweenTool
    \/ BetweenHistory
    \/ BetweenHover

SpecGesture == Init /\ [][NextGesture]_vars


(* ---------- Sessions of two pointers ---------- *)
(* Two fingers on a touch screen: each pointer goes down, moves while it is *)
(* down, and ends with pointerup or pointercancel; the two may overlap.     *)
TouchDown ==
    \E ev \in TouchEvs :
        /\ ev.pointerId \notin pressed
        /\ CountOp
        /\ beginStroke(ev)
        /\ pressed' = pressed \cup {ev.pointerId}
        /\ UNCHANGED <<exported, phase, script>>

TouchMove ==
    \E ev \in TouchEvs :
        /\ ev.pointerId \in pressed
        /\ CountOp
        /\ pointerMove(ev)
        /\ UNCHANGED rest

TouchUp ==
    \E ev \in TouchEvs :
        /\ ev.pointerId \in pressed
        /\ endStroke(ev)
        /\ pressed' = pressed \ {ev.pointerId}
        /\ UNCHANGED <<ops, exported, phase, script>>

TouchCancel ==
    \E ev \in TouchEvs :
        /\ ev.pointerId \in pressed
        /\ endStroke(ev)
        /\ pressed' = pressed \ {ev.pointerId}
        /\ UNCHANGED <<ops, exported, phase, script>>

NextTouch ==
    \/ TouchDown
    \/ TouchMove
    \/ TouchUp
    \/ TouchCancel
    \/ UndoClick
    \/ RedoClick

SpecTouch == Init /\ [][NextTouch]_vars


(* ====================== Properties ====================== *)
idSeq(list) == [i \in DOMAIN list |-> list[i].id]
ids(list) == {list[i].id : i \in DOMAIN list}
live == ids(displayList) \cup ids(redoStack)
Reverse(list) == [i \in 1..Len(list) |-> list[Len(list) + 1 - i]]
\* sticker mode with no sticker chosen: the only state in which beginStroke
\* returns before creating a command
NoToolSelected == toolMode = "sticker" /\ selectedStickerIdx = Null
\* a pen, or a sticker that is selected
usableTool == toolMode = "pen" \/ (toolMode = "sticker" /\ selectedStickerIdx # Null)
EndEvent == PointerUp \/ PointerLeave \/ PointerCancel

\* C1: a pointer-down with a usable tool appends exactly one new command at
\* the end of displayList, keeps the earlier entries in place and leaves
\* redoStack empty whatever it held; the ending event commits nothing.
C1_CommitAtPointerDown ==
    [][ /\ (PointerDown /\ usableTool) =>
              /\ Len(displayList') = Len(displayList) + 1
              /\ SubSeq(displayList', 1, Len(displayList)) = displayList
              /\ displayList'[Len(displayList')].id \notin live
              /\ redoStack' = <<>>
        /\ EndEvent => UNCHANGED history
      ]_vars

\* commit A, commit B, undo, commit C: displayList = [A, C], redoStack = []
C1_Witness ==
    /\ idSeq(displayList) = <<1, 3>>
    /\ redoStack = <<>>
    /\ isDrawing /\ activeCommand = 3

\* C2: undo on an empty displayList changes nothing and dispatches no
\* "drawing-changed"; otherwise it removes exactly the last entry of
\* displayList and pushes that same command on top of redoStack.
C2_Undo ==
    [][ UndoClick =>
          IF displayList = <<>>
          THEN /\ UNCHANGED <<history, currentPreview, gesture, toolState, screen>>
               /\ notified' = FALSE
          ELSE /\ displayList' = SubSeq(displayList, 1, Len(displayList) - 1)
               /\ redoStack' = Append(redoStack, displayList[Len(displayList)])
      ]_vars

\* three commits, then the two newest undone
C2_Witness ==
    /\ idSeq(displayList) = <<1>>
    /\ idSeq(redoStack) = <<3, 2>>

\* C3: redo on an empty redoStack changes nothing; otherwise it removes the
\* top of redoStack and appends that command at the end of displayList.
C3_Redo ==
    [][ RedoClick =>
          IF redoStack = <<>>
          THEN UNCHANGED <<history, currentPreview, gesture, toolState, screen>>
          ELSE /\ redoStack' = SubSeq(redoStack, 1, Len(redoStack) - 1)
               /\ displayList' = Append(displayList, redoStack[Len(redoStack)])
      ]_vars

\* commands 1 and 2 in displayList, command 3 undone, and a redo that acts
C3_Witness ==
    /\ idSeq(displayList) = <<1, 2>>
    /\ idSeq(redoStack) = <<3>>
    /\ ENABLED (RedoClick /\ displayList' # displayList)

RECURSIVE undoTimes(_, _)
undoTimes(n, h) == IF n = 0 THEN h ELSE undoTimes(n - 1, undoLists(h[1], h[2]))
RECURSIVE redoTimes(_, _)
redoTimes(n, h) == IF n = 0 THEN h ELSE redoTimes(n - 1, redoLists(h[1], h[2]))

\* C4: N commits followed by N undos leave displayList empty and redoStack
\* holding the N commands in reverse commit order; N redos then restore
\* displayList.
C4_CommitsThenUndos ==
    /\ redoStack = <<>> =>
          LET N == Len(displayList)
              undone == undoTimes(N, <<displayList, redoStack>>)
          IN  /\ undone = << <<>>, Reverse(displayList) >>
              /\ redoTimes(N, undone) = <<displayList, <<>> >>
    /\ (displayList = <<>> /\ Len(redoStack) = nextId) =>
          idSeq(redoStack) = [i \in 1..nextId |-> nextId + 1 - i]

\* three commits, three undos
C4_Witness ==
    /\ displayList = <<>>
    /\ idSeq(redoStack) = <<3, 2, 1>>

\* C5: undo then redo, and redo then undo, give back the same displayList
\* and redoStack.
C5_UndoRedoIdentity ==
    /\ displayList # <<>> =>
          LET u == undoLists(displayList, redoStack)
          IN  redoLists(u[1], u[2]) = <<displayList, redoStack>>
    /\ redoStack # <<>> =>
          LET r == redoLists(displayList, redoStack)
          IN  undoLists(r[1], r[2]) = <<displayList, redoStack>>

C5_Witness ==
    /\ Len(displayList) = 2
    /\ Len(redoStack) = 1
    /\ notified

\* C6: clear empties displayList and redoStack; undo and redo on the empty
\* history change nothing, and neither brings a command into the lists that
\* was not in them.
C6_ClearIrreversible ==
    [][ /\ ClearClick => (displayList' = <<>> /\ redoStack' = <<>>)
        /\ (UndoClick \/ RedoClick) =>
              /\ live' = live
              /\ (displayList = <<>> /\ redoStack = <<>>) => UNCHANGED history
      ]_vars

\* clear after three commits
C6_Witness ==
    /\ nextId = 3
    /\ displayList = <<>>
    /\ redoStack = <<>>

\* C7: no command is in both lists, and none twice in either.
C7_NoDuplicates ==
    Cardinality(live) = Len(displayList) + Len(redoStack)

C7_Witness ==
    /\ Len(displayList) = 1
    /\ Len(redoStack) = 2
    /\ ~isDrawing


\* the points of the scripted gesture: its pointer-down and pointer-moves
scriptPath ==
    [i \in 1..(Len(script.evs) - 1) |-> posFromPointer(script.evs[i])]
\* where the scripted gesture ended
scriptEnd == posFromPointer(script.evs[Len(script.evs)])

\* C8: a pen gesture begun with an empty displayList (down at p0, moves to
\* p1..pk, up at q, nothing in between) leaves exactly one line with the
\* points p0..pk in order, none dropped, with the width and colour set at
\* pointer-down, an empty redoStack and a pen preview at q.
C8_PenGesture ==
    (phase = "done" /\ script.tool.mode = "pen" /\ script.base = <<>>) =>
        /\ displayList =
              << [id |-> nextId, kind |-> "line", pts |-> scriptPath,
                  width |-> script.tool.width,
                  color |-> <<"hsl", script.tool.hue, 80, 45>>] >>
        /\ redoStack = <<>>
        /\ currentPreview =
              [kind |-> "penPreview", center |-> scriptEnd,
               width |-> script.tool.width,
               color |-> <<"hsl", script.tool.hue, 80, 45>>]
        /\ ~isDrawing

\* thick pen, down, two moves to the same point, up somewhere else
C8_Witness ==
    /\ phase = "done" /\ script.tool.mode = "pen" /\ script.base = <<>>
    /\ script.tool.width = THICK_WIDTH
    /\ Len(script.evs) = 4
    /\ script.evs[2] = script.evs[3]
    /\ script.evs[1] # script.evs[2]
    /\ script.evs[4] # script.evs[3]

\* C9: a sticker gesture (down at p0, moves to p1..pk, up at q) commits
\* exactly one sticker with the glyph, size and rotation selected at
\* pointer-down, anchored at the latest of p0..pk, and leaves a sticker
\* preview at q.
C9_StickerGesture ==
    (phase = "done" /\ script.tool.mode = "sticker" /\ script.tool.idx # Null) =>
        LET s == script.tool.stickers[script.tool.idx + 1]
        IN  /\ displayList =
                  Append(script.base,
                         [id |-> nextId, kind |-> "sticker",
                          at |-> scriptPath[Len(scriptPath)],
                          emoji |-> s.glyph, size |-> s.size,
                          rotationDeg |-> script.tool.rot])
            /\ currentPreview =
                  [kind |-> "stickerPreview", center |-> scriptEnd,
                   emoji |-> s.glyph, size |-> s.size,
                   rotationDeg |-> script.tool.rot]
            /\ ~isDrawing

\* a rotated sticker dragged away from where it was put down and released
\* somewhere else
C9_Witness ==
    /\ phase = "done" /\ script.tool.mode = "sticker"
    /\ script.tool.rot = 90
    /\ Len(script.evs) = 3
    /\ script.evs[2] # script.evs[1]
    /\ script.evs[3] # script.evs[2]


\* C11: pointer capture is acquired at every pointer-down, and once the
\* ending event (pointerup, pointercancel) of a pointer has been processed
\* no capture is held for it any more, also when the handler returned
\* early: only pointers that are still down hold a capture.
C11_CaptureReleased ==
    /\ pressed \subseteq captured
    /\ captured \subseteq pressed

\* C12: pointerup, pointerleave and pointercancel are interchangeable: a step
\* of one is a step of the others (same successor state for the same
\* pointer position), and after any of them the controller is idle, holds
\* no capture for a pointer whose gesture has ended, has dropped the
\* reference to the command in progress, and has left displayList and
\* redoStack as they were.
C12_EndEventsAlike ==
    [][ /\ (PointerUp <=> PointerLeave) /\ (PointerUp <=> PointerCancel)
        /\ (TouchUp <=> TouchCancel)
        /\ (EndEvent \/ TouchUp \/ TouchCancel) =>
              /\ ~isDrawing'
              /\ activeCommand' = Null
              /\ captured' \subseteq pressed'
              /\ UNCHANGED history
      ]_vars

\* C13: every repaint renders exactly the commands of displayList, each
\* once, oldest first, then the current preview (if any) last, and nothing
\* of redoStack; a repaint with displayList and the preview unchanged since
\* the last repaint renders the same sequence again.
C13_RepaintOrder ==
    [][ notified' =>
          /\ Len(screen') = Len(displayList')
                               + (IF currentPreview' = NoPreview THEN 0 ELSE 1)
          /\ \A i \in 1..Len(displayList') : screen'[i] = displayList'[i]
          /\ currentPreview' # NoPreview => screen'[Len(screen')] = currentPreview'
          /\ \A i \in 1..Len(screen') : \A j \in 1..Len(redoStack') :
                 screen'[i] # redoStack'[j]
          /\ (notified /\ displayList' = displayList /\ currentPreview' = currentPreview)
                 => screen' = screen
      ]_vars

\* a line, then a sticker, then the preview on screen, with an undone
\* sticker that is not painted
C13_Witness ==
    /\ notified
    /\ Len(displayList) = 2
    /\ displayList[1].kind = "line" /\ displayList[2].kind = "sticker"
    /\ Len(redoStack) = 1
    /\ currentPreview # NoPreview
    /\ screen = <<displayList[1], displayList[2], currentPreview>>

\* C14: a handler that changes displayList, redoStack or the preview
\* dispatches "drawing-changed" after the change, so when a handler has
\* returned the last repaint shows the current displayList and preview.
C14_ChangeNotified ==
    [][ /\ (history' # history \/ currentPreview' # currentPreview) => notified'
        /\ screen' = IF currentPreview' = NoPreview
                     THEN displayList'
                     ELSE displayList' \o <<currentPreview'>>
      ]_vars

\* after an undo with the pointer off the canvas
C14_Witness ==
    /\ notified
    /\ Len(displayList) = 1 /\ Len(redoStack) = 1
    /\ currentPreview = NoPreview
    /\ screen = displayList

\* C15: an export renders exactly the commands of displayList in order,
\* never the preview and nothing of redoStack, and changes neither
\* displayList, redoStack, the preview, the gesture state, the tool state
\* nor what is on screen, whether idle or in the middle of a gesture.
C15_ExportReadOnly ==
    [][ ExportClick =>
          /\ Len(exported') = Len(displayList)
          /\ \A i \in 1..Len(displayList) : exported'[i] = displayList[i]
          /\ \A i \in 1..Len(exported') :
                 /\ exported'[i] # currentPreview
                 /\ \A j \in 1..Len(redoStack) : exported'[i] # redoStack[j]
          /\ UNCHANGED <<history, currentPreview, gesture, toolState, screen>>
      ]_vars

\* an export taken while a preview is shown and a command is undone
C15_Witness ==
    /\ exported = displayList
    /\ Len(displayList) = 1 /\ Len(redoStack) = 1
    /\ currentPreview # NoPreview
    /\ ~notified

\* C16: each tool-state mutator (Thin and Thick buttons, hue slider, sticker
\* pick, rotation slider) invoked while idle dispatches "drawing-changed",
\* which repaints.
C16_ToolChangeRefreshes ==
    [][ ((ThinClick \/ ThickClick \/ HueInput \/ StickerClick \/ RotInput) /\ ~isDrawing)
            => notified'
      ]_vars

\* C17: whenever a gesture is in progress, the command in progress is the
\* last element of displayList, and a pointer-move during the gesture
\* changes the length of neither displayList nor redoStack, under every
\* interleaving of pointer events with undo, redo and clear.
C17_ActiveIsCommitted ==
    [][ /\ isDrawing' =>
              /\ displayList' # <<>>
              /\ displayList'[Len(displayList')].id = activeCommand'
        /\ (PointerMove /\ isDrawing) =>
              /\ Len(displayList') = Len(displayList)
              /\ Len(redoStack') = Len(redoStack)
      ]_vars

\* the commands of both lists
elems == {displayList[i] : i \in DOMAIN displayList} \cup {redoStack[i] : i \in DOMAIN redoStack}

\* C18: a command whose gesture has ended is frozen: no later event changes
\* its points or anchor, nor its width, colour, glyph, size or rotation,
\* whatever the tool settings become; it can only leave the lists.
C18_EndedIsFrozen ==
    [][ \A c \in elems :
          (~isDrawing \/ c.id # activeCommand) =>
              \A d \in elems' : d.id = c.id => d = c
      ]_vars

\* a thin line drawn and ended, the pen then set to thick, and a second
\* line being dragged
C18_Witness ==
    /\ Len(displayList) = 2
    /\ displayList[1].kind = "line"
    /\ displayList[1].width = THIN_WIDTH /\ Len(displayList[1].pts) = 1
    /\ selectedLineWidth = THICK_WIDTH
    /\ isDrawing /\ activeCommand = 2
    /\ Len(displayList[2].pts) = 2

\* C19: a pointer-move while idle stays idle, leaves displayList and
\* redoStack unchanged and replaces the preview by one at the hovered point
\* that matches the tool: a pen preview in pen mode, a sticker preview with
\* a sticker selected, none otherwise; no preview is ever in either list.
C19_HoverPreview ==
    [][ /\ (PointerMove /\ ~isDrawing) =>
              /\ ~isDrawing'
              /\ UNCHANGED history
              /\ \E ev \in PointerEvs :
                    LET at == [x |-> ev.clientX - CanvasRect.left,
                               y |-> ev.clientY - CanvasRect.top]
                    IN  currentPreview' =
                          IF toolMode = "pen"
                          THEN [kind |-> "penPreview", center |-> at,
                                width |-> selectedLineWidth,
                                color |-> <<"hsl", markerHue, 80, 45>>]
                          ELSE IF selectedStickerIdx # Null
                          THEN [kind |-> "stickerPreview", center |-> at,
                                emoji |-> STICKERS[selectedStickerIdx + 1].glyph,
                                size |-> STICKERS[selectedStickerIdx + 1].size,
                                rotationDeg |-> stickerRotationDeg]
                          ELSE [kind |-> "none"]
        /\ \A c \in elems' : c.kind \in {"line", "sticker"}
      ]_vars

\* hovering with a rotated sticker selected, before anything was drawn
C19_Witness ==
    /\ nextId = 0
    /\ ~isDrawing
    /\ toolMode = "sticker" /\ selectedStickerIdx = 0 /\ stickerRotationDeg = 90
    /\ currentPreview = [kind |-> "stickerPreview", center |-> [x |-> 20, y |-> 10],
                          emoji |-> STICKERS_INIT[1].glyph, size |-> DEFAULT_STICKER_SIZE,
                          rotationDeg |-> 90]

\* C20: a pointer-out processed while idle leaves no preview, and from then
\* on a preview comes back only through a hover pointer-move or the end of
\* a gesture, in whatever order pointer-out, pointer-leave and pointer-up
\* arrive: an ending event that finds the controller idle builds none.
C20_NoStalePreview ==
    [][ /\ (PointerOut /\ ~isDrawing) => (currentPreview' = NoPreview /\ ~isDrawing')
        /\ (EndEvent /\ ~isDrawing) => UNCHANGED currentPreview
        /\ (currentPreview = NoPreview /\ currentPreview' # NoPreview) =>
              \/ ~isDrawing /\ PointerMove
              \/ isDrawing /\ EndEvent
      ]_vars

\* one pen gesture, ended, and then the pointer has left the canvas
C20_Witness ==
    /\ ops = 1 /\ nextId = 1
    /\ ~isDrawing
    /\ currentPreview = NoPreview
    /\ screen = displayList

\* C21: whenever the controller is idle and a preview exists, the preview
\* shows the current tool settings: a pen preview iff the mode is pen, with
\* the current width and colour; a sticker preview iff the mode is sticker,
\* with the selected glyph and size and the current rotation.
C21_PreviewIsCurrent ==
    (~isDrawing /\ currentPreview # NoPreview) =>
        IF toolMode = "pen"
        THEN /\ currentPreview.kind = "penPreview"
             /\ currentPreview.width = selectedLineWidth
             /\ currentPreview.color = <<"hsl", markerHue, 80, 45>>
        ELSE /\ currentPreview.kind = "stickerPreview"
             /\ selectedStickerIdx # Null
             /\ currentPreview.rotationDeg = stickerRotationDeg
             /\ currentPreview.size = STICKERS[selectedStickerIdx + 1].size
             /\ currentPreview.emoji = STICKERS[selectedStickerIdx + 1].glyph

\* the mode is sticker exactly when a sticker is selected, and the selected
\* index is a position of the sticker list
stickerSelectionOk ==
    /\ toolMode \in {"pen", "sticker"}
    /\ (toolMode = "sticker") <=> (selectedStickerIdx # Null)
    /\ selectedStickerIdx # Null => selectedStickerIdx \in 0..(Len(STICKERS) - 1)

\* C22: in every reachable state the mode is sticker iff a sticker is
\* selected, the selected index refers to an existing entry of the sticker
\* list, and the list only grows; so no pointer-down finds sticker mode with
\* nothing selected.
C22_StickerSelection ==
    [][ /\ stickerSelectionOk
        /\ stickerSelectionOk'
        /\ Len(STICKERS') >= Len(STICKERS)
        /\ SubSeq(STICKERS', 1, Len(STICKERS)) = STICKERS
        /\ ~(PointerDown /\ NoToolSelected)
      ]_vars

\* a custom sticker added, selected by "Custom +" and stamped
C22_Witness ==
    /\ Len(STICKERS) = 4
    /\ toolMode = "sticker" /\ selectedStickerIdx = 3
    /\ Len(displayList) = 1
    /\ displayList[1].kind = "sticker"
    /\ displayList[1].emoji = STICKERS[4].glyph

\* C23: no preview exists while a gesture is in progress: isDrawing implies
\* that currentPreview is null, so what is on screen during a gesture is
\* the commands of displayList only.
C23_NoPreviewWhileDrawing ==
    isDrawing => (currentPreview = NoPreview /\ screen = displayList)

\* a pen gesture during which a sticker was picked and the pointer moved on
C23_Witness ==
    /\ isDrawing /\ activeCommand = 1
    /\ toolMode = "sticker"
    /\ Len(displayList) = 1
    /\ displayList[1].kind = "line" /\ Len(displayList[1].pts) = 2
    /\ currentPreview = NoPreview

\* C24: pointer-down is not guarded by the gesture state.  A pointer-down
\* received during a gesture commits one more new command and makes it the
\* one in progress; the command that was in progress stays in the history
\* (displayList or redoStack) and is not changed any more; one ending event
\* then makes the controller idle.  Every pointer-down commits exactly one
\* command, so commands committed = pointer-downs.
C24_DownWhileActive ==
    [][ /\ PointerDown =>
              /\ nextId' = nextId + 1
              /\ Len(displayList') = Len(displayList) + 1
              /\ displayList'[Len(displayList')].id \notin live
        /\ (PointerDown /\ isDrawing) =>
              /\ isDrawing'
              /\ activeCommand' # activeCommand
              /\ activeCommand' = displayList'[Len(displayList')].id
              /\ (\E c \in elems : c.id = activeCommand) =>
                    (\E d \in elems' : d.id = activeCommand)
        /\ isDrawing =>
              \A c \in elems : c.id # activeCommand =>
                  \A d \in elems' : d.id = c.id => d = c
        /\ (EndEvent /\ isDrawing) => (~isDrawing' /\ activeCommand' = Null)
      ]_vars

\* C25: undo, redo and clear leave the gesture state (isDrawing, the
\* reference to the command in progress, the capture), the preview and the
\* tool settings unchanged, idle or during a gesture; pointer events never
\* change the tool settings.
C25_HistoryOpsFrame ==
    [][ /\ (UndoClick \/ RedoClick \/ ClearClick) =>
              UNCHANGED <<isDrawing, activeCommand, captured, currentPreview, toolState>>
        /\ (PointerDown \/ PointerMove \/ EndEvent \/ PointerOut) =>
              UNCHANGED toolState
      ]_vars

\* an undo in the middle of a sticker gesture
C25_Witness ==
    /\ isDrawing /\ activeCommand = 2
    /\ idSeq(displayList) = <<1>>
    /\ idSeq(redoStack) = <<2>>
    /\ toolMode = "sticker" /\ selectedStickerIdx = 0

====
